---- MODULE Spec2Model ----
(***************************************************************************)
(* Rule-based signal scoring and trade-setup prediction of the crypto      *)
(* dashboard: SignalGenerator.generate_signals / predict_price_levels /    *)
(* _calculate_setup_confidence (src/models/signal_generator.py) together   *)
(* with TechnicalIndicators.ATR and detect_support_resistance              *)
(* (src/utils/indicators.py).                                              *)
(*                                                                         *)
(* Numbers.  The candle columns hold integers; one unit is 10^-6 of the    *)
(* quote currency, so the code's round(x, 8) is a rounding to 2 decimals   *)
(* of a unit.  Every derived price is an exact rational <<num, den>>.      *)
(* Confidences are integers in hundredths (0.65 is 65).  An undefined cell *)
(* (pandas NaN) is the empty set and a defined cell v is {v}, so that      *)
(* every comparison with an undefined cell is false, as in pandas.         *)
(***************************************************************************)
EXTENDS Integers, Sequences, FiniteSets, TLC

VARIABLES
    df,           \* the caller's candle table: a sequence of rows
    columns,      \* the indicator columns present in df
    indexKind,    \* "range" (positional index) or "datetime" (timestamp index)
    pc,           \* position in the running call
    caller,       \* "none", "user" or "predict": who called generate_signals
    threshold,    \* confidence_threshold: the caller's, then that of the running call
    signals,      \* the signals frame of generate_signals
    atr,          \* predict_price_levels: atr
    levels,       \* predict_price_levels: levels
    entry_level,  \* predict_price_levels: entry_level
    exit_level,   \* predict_price_levels: exit_level
    stop_loss,    \* predict_price_levels: stop_loss
    setup,        \* which branch of predict_price_levels set the levels
    result,       \* the value returned by the call (None while running)
    args,         \* the arguments of a call of TechnicalIndicators besides the table
    local         \* the table object a call of TechnicalIndicators works on

vars == <<df, columns, indexKind, pc, caller, threshold, signals, atr, levels,
          entry_level, exit_level, stop_loss, setup, result, args, local>>

-----------------------------------------------------------------------------
(* Program constants *)

MinBars == 20
RecentWindow == 10
SRWindow == 5
AtrPeriod == 14
EmaBase == 60
EmaBonus == 10
RsiConfidence == 65
MacdConfidence == 70
BbConfidence == 75
RsiOversold == 30
RsiOverbought == 70
DefaultThreshold == 60
PriceDecimals == 8
RatioDecimals == 2

\* a column unit is 10^-(PriceDecimals - RatioDecimals) of the quote currency,
\* so round(x, PriceDecimals) keeps UnitDecimalsKept decimals of a unit
UnitDecimalsKept == RatioDecimals

(* Bounds of the input tables *)
MaxShortBars == 3
MaxExtraBars == 1
MaxDetectBars == 20
MaxSeriesLen == 4
\* decimals kept of a square root
SqrtDigits == 3

-----------------------------------------------------------------------------
(* Values *)

None == <<>>
NaN == {}
Val(x) == {x}

\* pandas/numpy comparisons: false as soon as one side is undefined
Lt(a, b) == \E x \in a : \E y \in b : x < y
Le(a, b) == \E x \in a : \E y \in b : x <= y
Gt(a, b) == Lt(b, a)
Ge(a, b) == Le(b, a)

Abs(x) == IF x < 0 THEN -x ELSE x
Max2(a, b) == IF a >= b THEN a ELSE b

RECURSIVE Gcd(_, _)
Gcd(a, b) == IF b = 0 THEN a ELSE Gcd(b, a % b)

RECURSIVE Pow10(_)
Pow10(k) == IF k = 0 THEN 1 ELSE 10 * Pow10(k - 1)

\* exact rationals <<num, den>> with den > 0, in lowest terms
RNorm(n, d) ==
    LET g == Gcd(Abs(n), Abs(d))
        s == IF d < 0 THEN -1 ELSE 1
    IN  <<(s * n) \div g, (s * d) \div g>>
Rat(n) == <<n, 1>>
RAdd(a, b) == RNorm(a[1] * b[2] + b[1] * a[2], a[2] * b[2])
RSub(a, b) == RNorm(a[1] * b[2] - b[1] * a[2], a[2] * b[2])
RMul(a, b) == RNorm(a[1] * b[1], a[2] * b[2])
RDiv(a, b) == RNorm(a[1] * b[2], a[2] * b[1])
RAbs(a) == <<Abs(a[1]), a[2]>>
RLt(a, b) == a[1] * b[2] < b[1] * a[2]
RLe(a, b) == a[1] * b[2] <= b[1] * a[2]
RGt(a, b) == RLt(b, a)
RGe(a, b) == RLe(b, a)
RZero(a) == a[1] = 0

\* Python's round(x, digits) on the exact value: nearest, ties to even
Round(x, digits) ==
    LET s == Pow10(digits)
        p == x[1] * s
        q == x[2]
        f == p \div q
        r == p - f * q
        up == (2 * r > q) \/ (2 * r = q /\ f % 2 = 1)
    IN  RNorm(IF up THEN f + 1 ELSE f, s)

\* truthiness of a Python value that is None or a number
Truthy(x) == x # None /\ ~RZero(x)

-----------------------------------------------------------------------------
(* The input tables.  A table is quiet (no rule fires, flat prices) except  *)
(* for its last three indicator rows (moved back by `back` rows), a few     *)
(* dips and peaks in the low and high columns, and the last close.          *)

AllColumns == {"ema9", "ema21", "ema50", "rsi", "macd", "macd_signal",
               "bb_upper", "bb_middle", "bb_lower"}

Px == [base |-> 1000, ema |-> 10, bandIn |-> 400, bandNear |-> 100,
       bandFar |-> 900, dipA |-> 7, dipB |-> 10, peakA |-> 8, peakB |-> 12]

IndState(e, r, m, b) == [ema |-> e, rsi |-> r, macd |-> m, bb |-> b]
Quiet == IndState(0, 50, 0, "in")

FlatShape == [w |-> 2, dipA |-> 0, dipB |-> 0, peakA |-> 0, peakB |-> 0, dLast |-> 0,
              e50 |-> -50]

StateAt(sc, i) ==
    LET last == sc.n - sc.back
    IN  IF i = last - 2 THEN sc.tail[1]
        ELSE IF i = last - 1 THEN sc.tail[2]
        ELSE IF i = last THEN sc.tail[3]
        ELSE Quiet

CloseAt(sc, i) == Px.base + (IF i = sc.n THEN sc.shape.dLast ELSE 0)

RowAt(sc, i) ==
    LET st == StateAt(sc, i)
        sh == sc.shape
        c  == CloseAt(sc, i)
        lo == CASE st.bb = "in"    -> c - Px.bandIn
                [] st.bb = "below" -> c + Px.bandNear
                [] st.bb = "above" -> c - Px.bandFar
                [] st.bb = "zero"  -> c
        up == CASE st.bb = "in"    -> c + Px.bandIn
                [] st.bb = "below" -> c + Px.bandFar
                [] st.bb = "above" -> c - Px.bandNear
                [] st.bb = "zero"  -> c
        warm == i <= sc.warm
    IN  [timestamp   |-> i,
         close       |-> c,
         high        |-> c + sh.w + (IF i = Px.peakA THEN sh.peakA ELSE 0)
                                  + (IF i = Px.peakB THEN sh.peakB ELSE 0),
         low         |-> c - sh.w - (IF i = Px.dipA THEN sh.dipA ELSE 0)
                                  - (IF i = Px.dipB THEN sh.dipB ELSE 0),
         ema9        |-> Val(Px.ema + st.ema),
         ema21       |-> Val(Px.ema),
         ema50       |-> Val(c + sh.e50),
         rsi         |-> IF warm THEN NaN ELSE Val(st.rsi),
         macd        |-> Val(st.macd),
         macd_signal |-> Val(0),
         bb_upper    |-> IF warm THEN NaN ELSE Val(up),
         bb_middle   |-> IF warm THEN NaN ELSE Val((lo + up) \div 2),
         bb_lower    |-> IF warm THEN NaN ELSE Val(lo)]

MkTable(sc) == [i \in 1..sc.n |-> RowAt(sc, i)]

Scenario(n, back, warm, t1, t2, t3, shape, cols, idx, th) ==
    [n |-> n, back |-> back, warm |-> warm, tail |-> <<t1, t2, t3>>, shape |-> shape,
     cols |-> cols, idx |-> idx, th |-> th]

Shape(w, dipA, dipB, peakA, peakB, dLast) ==
    [w |-> w, dipA |-> dipA, dipB |-> dipB, peakA |-> peakA, peakB |-> peakB,
     dLast |-> dLast, e50 |-> -50]

\* values of confidence_threshold
Thresholds == {0, DefaultThreshold, MacdConfidence, BbConfidence + 5}

NoEma50 == AllColumns \ {"ema50"}
ColumnSets == {AllColumns, NoEma50, {}}

\* rows before the event row: what the previous-row conditions read
PreStates == {IndState(0, r, 0, b) : r \in {25, 50, 75}, b \in {"in", "below", "above", "zero"}}
\* the event row: crossovers of ema9/ema21 and macd/macd_signal
EvStates == {IndState(e, 50, m, "in") : e \in {-1, 0, 1}, m \in {-1, 0, 1}}
\* the row after it
PostStates == {IndState(e, 50, 0, "in") : e \in {-1, 0, 1}}
\* a last row in every position the confidence score distinguishes
LastStates == {IndState(e, r, m, b) : e \in {-1, 0, 1}, r \in {25, 50, 75}, m \in {-1, 0, 1},
                                      b \in {"in", "below", "above"}}

\* short tables with every combination of rules firing on one row, and the
\* same rows at the edge of the recent window of a longer table, with and
\* without an undefined first row of rsi and Bollinger bands
ScoringScenarios ==
    {Scenario(n, 0, 0, t1, t2, t3, FlatShape, cols, "range", th) :
        n \in 0..MaxShortBars, t1 \in PreStates, t2 \in EvStates, t3 \in PostStates,
        cols \in ColumnSets, th \in Thresholds}
    \cup
    {Scenario(RecentWindow + MaxShortBars, back, warm, t1, t2, Quiet, FlatShape, cols, "range", th) :
        back \in {RecentWindow - 1, RecentWindow}, warm \in {0, 1},
        t1 \in PreStates, t2 \in EvStates, cols \in {AllColumns, NoEma50},
        th \in {0, DefaultThreshold}}

\* price shapes: spread, dips of the low column, peaks of the high column, last close
LevelShapes ==
    {Shape(2, dipA, dipB, peakA, peakB, dLast) :
        dipA \in {0, 5, 50}, dipB \in {0, 7}, peakA \in {0, 5, 50}, peakB \in {0, 9},
        dLast \in {-100, -7, 0, 7, 100}}
\* prices whose stop or target falls on zero, and a table without any movement
WildShapes == {Shape(250, 0, 0, 0, 0, 0), Shape(251, 0, 0, 0, 0, 4), Shape(0, 0, 0, 0, 0, 0)}
ScoreShapes ==
    {Shape(2, 5, 0, 5, 0, 0), Shape(2, 50, 0, 5, 0, 0), Shape(2, 5, 0, 50, 0, 0),
     Shape(0, 0, 0, 0, 0, 0), Shape(2, 0, 0, 0, 0, 7), Shape(2, 5, 0, 0, 0, 0)}

\* <<rsi of the row before the last but one, ema9 offset of the last row>>: an RSI
\* signal on the last row but one and/or an EMA signal on the last row
SignalPairs == {<<50, 0>>, <<25, 0>>, <<75, 0>>, <<50, 1>>, <<50, -1>>, <<25, -1>>, <<75, 1>>,
                <<25, 1>>}

\* tables long enough for a setup, over every price shape
SetupScenarios ==
    {Scenario(MinBars, 0, 0, IndState(0, p[1], 0, "in"), Quiet, IndState(p[2], 50, 0, "in"), sh,
              NoEma50, "datetime", DefaultThreshold) :
        p \in SignalPairs, sh \in LevelShapes \cup WildShapes}
    \cup
    {Scenario(n, 0, 0, IndState(0, p[1], 0, "in"), Quiet, IndState(p[2], 50, 0, "in"), sh,
              NoEma50, "datetime", DefaultThreshold) :
        n \in (MinBars + 1)..(MinBars + MaxExtraBars), p \in SignalPairs,
        sh \in ScoreShapes \cup WildShapes}
    \cup
    {Scenario(MinBars, 0, 0, IndState(0, p[1], 0, "in"), Quiet, IndState(p[2], 50, 0, "in"), sh,
              cols, "range", DefaultThreshold) :
        p \in SignalPairs, sh \in ScoreShapes, cols \in ColumnSets}
    \cup
    {Scenario(MinBars - 1, 0, 0, t1, Quiet, Quiet, FlatShape, NoEma50, "datetime",
              DefaultThreshold) :
        t1 \in PreStates}

\* the same with the last row in every position the confidence score reads
ConfidenceScenarios ==
    {Scenario(MinBars, 0, 0, IndState(0, r, 0, "in"), Quiet, t3, sh, NoEma50, "datetime",
              DefaultThreshold) :
        r \in {25, 50, 75}, t3 \in LastStates, sh \in ScoreShapes}

Scenarios == ScoringScenarios \cup SetupScenarios \cup ConfidenceScenarios

-----------------------------------------------------------------------------
(* Table access *)

Has(c) == c \in columns
Empty == Len(df) = 0
Bars == 1..Len(df)

\* df[c] at row i; the price columns are always defined
Cell(c, i) == IF c \in {"close", "high", "low"} THEN Val(df[i][c]) ELSE df[i][c]
\* df[c].shift(1) at row i
Shift(c, i) == IF i = 1 THEN NaN ELSE Cell(c, i - 1)

NoResult == [kind |-> "none"]
Raised(e) == [kind |-> "raised", error |-> e]
NoLevels == [keys |-> {}, support |-> <<>>, resistance |-> <<>>]
NoArgs == [call |-> "none"]
\* tables are objects: the caller's own, or the copy a call makes of it
CallerTable == "df"
TableCopy == "df.copy()"
NoLocal == [obj |-> "none", columns |-> {}]

-----------------------------------------------------------------------------
(* generate_signals *)

NewSignals ==
    [i \in Bars |-> [bar |-> i, timestamp |-> df[i].timestamp, price |-> df[i].close,
                     signal |-> 0, confidence |-> 0, reason |-> ""]]

\* signals.loc[mask, col] = v for a scalar v
Loc(sig, mask, col, v) ==
    [i \in DOMAIN sig |-> IF mask[i] THEN [sig[i] EXCEPT ![col] = v] ELSE sig[i]]

Count(mask) == Cardinality({i \in DOMAIN mask : mask[i]})

\* signals.loc[mask, col] = arr for an array arr as long as the table: pandas
\* accepts it when the mask selects no row (nothing is set) or every row, and
\* raises ValueError otherwise
LocArrayRaises(mask, arr) == Count(mask) # 0 /\ Count(mask) # Len(arr)
LocArray(sig, mask, col, arr) ==
    [i \in DOMAIN sig |-> IF mask[i] THEN [sig[i] EXCEPT ![col] = arr[i]] ELSE sig[i]]

\* variant with <= for <: an equally confident later rule would take the row
ConfNotAbove(sig, c) == [i \in DOMAIN sig |-> sig[i].confidence <= c]
ConfBelow(sig, c) == [i \in DOMAIN sig |-> sig[i].confidence < c]
And(m1, m2) == [i \in DOMAIN m1 |-> m1[i] /\ m2[i]]

\* the crossing condition (a.shift(1) <= b.shift(1)) & (a > b)
CrossUp(a, b) == [i \in Bars |-> Le(Shift(a, i), Shift(b, i)) /\ Gt(Cell(a, i), Cell(b, i))]
CrossDown(a, b) == [i \in Bars |-> Ge(Shift(a, i), Shift(b, i)) /\ Lt(Cell(a, i), Cell(b, i))]

ema_cross_up == CrossUp("ema9", "ema21")
ema_cross_down == CrossDown("ema9", "ema21")
buy_confidence ==
    [i \in Bars |-> EmaBase + (IF Gt(Cell("close", i), Cell("ema50", i)) THEN EmaBonus ELSE 0)]
sell_confidence ==
    [i \in Bars |-> EmaBase + (IF Lt(Cell("close", i), Cell("ema50", i)) THEN EmaBonus ELSE 0)]

rsi_buy == [i \in Bars |-> Le(Shift("rsi", i), Val(RsiOversold)) /\ Gt(Cell("rsi", i), Val(RsiOversold))]
rsi_sell == [i \in Bars |-> Ge(Shift("rsi", i), Val(RsiOverbought)) /\ Lt(Cell("rsi", i), Val(RsiOverbought))]

macd_cross_up == CrossUp("macd", "macd_signal")
macd_cross_down == CrossDown("macd", "macd_signal")

bb_buy == [i \in Bars |-> Le(Shift("close", i), Shift("bb_lower", i)) /\ Gt(Cell("close", i), Cell("bb_lower", i))]
bb_sell == [i \in Bars |-> Ge(Shift("close", i), Shift("bb_upper", i)) /\ Lt(Cell("close", i), Cell("bb_upper", i))]

\* three assignments in a row, each under the mask `fires & (confidence < c)`
\* evaluated anew on the frame as the previous assignment left it
ApplyIfMoreConfident(sig, fires, dir, c, why) ==
    LET s1 == Loc(sig, And(fires, ConfBelow(sig, c)), "signal", dir)
        s2 == Loc(s1, And(fires, ConfBelow(s1, c)), "confidence", c)
    IN  Loc(s2, And(fires, ConfBelow(s2, c)), "reason", why)

\* the EMA block with a scalar confidence (no ema50 column)
ApplyEma(sig, fires, dir, c, why) ==
    Loc(Loc(Loc(sig, fires, "signal", dir), fires, "confidence", c), fires, "reason", why)
\* the EMA block with the per-row confidence array (ema50 column present)
ApplyEmaArray(sig, fires, dir, arr, why) ==
    Loc(LocArray(Loc(sig, fires, "signal", dir), fires, "confidence", arr), fires, "reason", why)

Idle == pc = "idle"

\* generate_signals(df, confidence_threshold): entry, empty-table return, new frame
GenerateSignals ==
    /\ Idle
    /\ caller' = "user"
    /\ threshold' = threshold
    /\ atr' = None /\ levels' = NoLevels
    /\ entry_level' = None /\ exit_level' = None /\ stop_loss' = None /\ setup' = "none"
    /\ IF Empty
       THEN /\ signals' = <<>>
            /\ result' = [kind |-> "signals", rows |-> <<>>]
            /\ pc' = "done"
       ELSE /\ signals' = NewSignals
            /\ result' = NoResult
            /\ pc' = "ema"
    /\ UNCHANGED <<df, columns, indexKind>>
    /\ UNCHANGED <<args, local>>

Raise(e) ==
    /\ pc' = "raised"
    /\ result' = Raised(e)
    /\ signals' = <<>>

EMACrossover ==
    /\ pc = "ema"
    /\ IF ~(Has("ema9") /\ Has("ema21"))
       THEN /\ signals' = signals /\ pc' = "rsi" /\ result' = result
       ELSE IF ~Has("ema50")
       THEN /\ signals' = ApplyEma(ApplyEma(signals, ema_cross_up, 1, EmaBase,
                                            "EMA9 crossed above EMA21"),
                                   ema_cross_down, -1, EmaBase, "EMA9 crossed below EMA21")
            /\ pc' = "rsi" /\ result' = result
       ELSE IF LocArrayRaises(ema_cross_up, buy_confidence)
                 \/ LocArrayRaises(ema_cross_down, sell_confidence)
       THEN Raise("ValueError")
       ELSE /\ signals' = ApplyEmaArray(ApplyEmaArray(signals, ema_cross_up, 1, buy_confidence,
                                                      "EMA9 crossed above EMA21"),
                                        ema_cross_down, -1, sell_confidence,
                                        "EMA9 crossed below EMA21")
            /\ pc' = "rsi" /\ result' = result
    /\ UNCHANGED <<df, columns, indexKind, caller, threshold, atr, levels,
                   entry_level, exit_level, stop_loss, setup>>
    /\ UNCHANGED <<args, local>>

RSISignals ==
    /\ pc = "rsi"
    /\ signals' = IF Has("rsi")
                  THEN ApplyIfMoreConfident(
                           ApplyIfMoreConfident(signals, rsi_buy, 1, RsiConfidence,
                                                "RSI crossed above 30 (oversold)"),
                           rsi_sell, -1, RsiConfidence, "RSI crossed below 70 (overbought)")
                  ELSE signals
    /\ pc' = "macd"
    /\ UNCHANGED <<df, columns, indexKind, caller, threshold, atr, levels,
                   entry_level, exit_level, stop_loss, setup, result>>
    /\ UNCHANGED <<args, local>>

MACDSignals ==
    /\ pc = "macd"
    /\ signals' = IF Has("macd") /\ Has("macd_signal")
                  THEN ApplyIfMoreConfident(
                           ApplyIfMoreConfident(signals, macd_cross_up, 1, MacdConfidence,
                                                "MACD crossed above signal line"),
                           macd_cross_down, -1, MacdConfidence, "MACD crossed below signal line")
                  ELSE signals
    /\ pc' = "bb"
    /\ UNCHANGED <<df, columns, indexKind, caller, threshold, atr, levels,
                   entry_level, exit_level, stop_loss, setup, result>>
    /\ UNCHANGED <<args, local>>

BollingerSignals ==
    /\ pc = "bb"
    /\ signals' = IF {"bb_upper", "bb_lower", "bb_middle"} \subseteq columns
                  THEN ApplyIfMoreConfident(
                           ApplyIfMoreConfident(signals, bb_buy, 1, BbConfidence,
                                                "Price bounced from lower Bollinger Band"),
                           bb_sell, -1, BbConfidence, "Price rejected from upper Bollinger Band")
                  ELSE signals
    /\ pc' = "threshold"
    /\ UNCHANGED <<df, columns, indexKind, caller, threshold, atr, levels,
                   entry_level, exit_level, stop_loss, setup, result>>
    /\ UNCHANGED <<args, local>>

\* signals.loc[confidence < threshold, 'signal'] = 0, and 'reason' = ""
Thresholded(sig, th) ==
    Loc(Loc(sig, ConfBelow(sig, th), "signal", 0), ConfBelow(sig, th), "reason", "")

ApplyThreshold ==
    /\ pc = "threshold"
    /\ signals' = Thresholded(signals, threshold)
    /\ pc' = "recent"
    /\ UNCHANGED <<df, columns, indexKind, caller, threshold, atr, levels,
                   entry_level, exit_level, stop_loss, setup, result>>
    /\ UNCHANGED <<args, local>>

\* sig.iloc[-k:]
LastRows(sig, k) == IF Len(sig) <= k THEN sig ELSE SubSeq(sig, Len(sig) - k + 1, Len(sig))

Keep(r, th) == r.confidence >= th
\* recent_signals[recent_signals['confidence'] >= confidence_threshold]
Filter(sig, th) == SelectSeq(sig, LAMBDA r : Keep(r, th))

Recent(sig, th) == Filter(LastRows(sig, RecentWindow), th)

\* the last 10 rows, filtered, returned to the caller
RecentSignals ==
    /\ pc = "recent"
    /\ signals' = Recent(signals, threshold)
    /\ IF caller = "user"
       THEN /\ pc' = "done"
            /\ result' = [kind |-> "signals", rows |-> signals']
       ELSE /\ pc' = "setup"
            /\ result' = result
    /\ UNCHANGED <<df, columns, indexKind, caller, threshold, atr, levels,
                   entry_level, exit_level, stop_loss, setup>>
    /\ UNCHANGED <<args, local>>

-----------------------------------------------------------------------------
(* TechnicalIndicators.ATR *)

\* tr: zero on the first row, then max(high-low, |high-prevClose|, |low-prevClose|)
TrueRange(i) ==
    IF i = 1 THEN 0
    ELSE Max2(df[i].high - df[i].low,
              Max2(Abs(df[i].high - df[i - 1].close), Abs(df[i].low - df[i - 1].close)))

RECURSIVE SumTR(_, _)
SumTR(a, b) == IF a > b THEN 0 ELSE TrueRange(b) + SumTR(a, b - 1)

\* tr.rolling(window=timeperiod).mean() at row i: undefined before timeperiod rows
ATR(timeperiod, i) ==
    IF i < timeperiod THEN NaN
    ELSE Val(RNorm(SumTR(i - timeperiod + 1, i), timeperiod))

-----------------------------------------------------------------------------
(* TechnicalIndicators.detect_support_resistance *)

RECURSIVE MinOver(_, _, _)
MinOver(c, a, b) ==
    IF a = b THEN df[a][c]
    ELSE LET m == MinOver(c, a + 1, b) IN IF df[a][c] <= m THEN df[a][c] ELSE m
RECURSIVE MaxOver(_, _, _)
MaxOver(c, a, b) ==
    IF a = b THEN df[a][c]
    ELSE LET m == MaxOver(c, a + 1, b) IN IF df[a][c] >= m THEN df[a][c] ELSE m

\* rolling(window=w, center=True): row i reads rows i+off-w+1 .. i+off, off = (w-1)//2,
\* and is undefined when the window is not complete
RollFrom(w, i) == i + ((w - 1) \div 2) - w + 1
RollTo(w, i) == i + ((w - 1) \div 2)
RollComplete(w, i) == RollFrom(w, i) >= 1 /\ RollTo(w, i) <= Len(df)
RollingMin(w, i) == IF RollComplete(w, i) THEN Val(MinOver("low", RollFrom(w, i), RollTo(w, i))) ELSE NaN
RollingMax(w, i) == IF RollComplete(w, i) THEN Val(MaxOver("high", RollFrom(w, i), RollTo(w, i))) ELSE NaN

\* for i in range(window, len(df)-window), rows counted from 1 here
ScanRows(w) == (w + 1)..(Len(df) - w)

IsSupport(w, i) ==
    /\ Val(df[i].low) = RollingMin(w, i)
    /\ df[i].low < df[i - 1].low
    /\ df[i].low < df[i + 1].low
IsResistance(w, i) ==
    /\ Val(df[i].high) = RollingMax(w, i)
    /\ df[i].high > df[i - 1].high
    /\ df[i].high > df[i + 1].high

\* the (index, price) pairs appended by one scan loop, in row order
RECURSIVE Collect(_, _, _, _)
Collect(kind, w, i, last) ==
    IF i > last THEN <<>>
    ELSE (IF kind = "support" /\ IsSupport(w, i) THEN <<<<Rat(df[i].timestamp), Rat(df[i].low)>>>>
          ELSE IF kind = "resistance" /\ IsResistance(w, i)
               THEN <<<<Rat(df[i].timestamp), Rat(df[i].high)>>>>
          ELSE <<>>) \o Collect(kind, w, i + 1, last)

support_levels(w) == Collect("support", w, w + 1, Len(df) - w)
resistance_levels(w) == Collect("resistance", w, w + 1, Len(df) - w)

\* stable sorts: by price ascending (levels.sort), by time descending (sorted reverse)
Before(mode, a, b) == IF mode = "price" THEN RLt(a[2], b[2]) ELSE RGt(a[1], b[1])
RECURSIVE Insert(_, _, _)
Insert(mode, x, s) ==
    IF s = <<>> THEN <<x>>
    ELSE IF Before(mode, x, Head(s)) THEN <<x>> \o s
    ELSE <<Head(s)>> \o Insert(mode, x, Tail(s))
RECURSIVE Sort(_, _)
Sort(mode, s) ==
    IF s = <<>> THEN <<>>
    ELSE Insert(mode, s[Len(s)], Sort(mode, SubSeq(s, 1, Len(s) - 1)))

RECURSIVE SumField(_, _)
SumField(k, s) == IF s = <<>> THEN Rat(0) ELSE RAdd(Head(s)[k], SumField(k, Tail(s)))

\* (mean timestamp, mean price) of a cluster
ClusterMean(c) == <<RDiv(SumField(1, c), Rat(Len(c))), RDiv(SumField(2, c), Rat(Len(c)))>>

threshold_pct == <<5, 1000>>

\* abs(current_level - prev_level) / prev_level < threshold_pct
SameCluster(prev_level, current_level) ==
    RLt(RDiv(RAbs(RSub(current_level, prev_level)), prev_level), threshold_pct)

RECURSIVE ClusterLoop(_, _, _, _)
ClusterLoop(lv, i, current_cluster, clustered) ==
    IF i > Len(lv) THEN Append(clustered, ClusterMean(current_cluster))
    ELSE IF SameCluster(current_cluster[Len(current_cluster)][2], lv[i][2])
         THEN ClusterLoop(lv, i + 1, Append(current_cluster, lv[i]), clustered)
         ELSE ClusterLoop(lv, i + 1, <<lv[i]>>, Append(clustered, ClusterMean(current_cluster)))

\* l[0].timestamp() exists only when the table is indexed by timestamps; on any
\* other index the AttributeError is caught and the clustering returns []
cluster_levels(lv) ==
    IF lv = <<>> THEN <<>>
    ELSE IF indexKind # "datetime" THEN <<>>
    ELSE LET sorted == Sort("price", lv)
         IN  ClusterLoop(sorted, 2, <<sorted[1]>>, <<>>)

FirstRows(s, k) == IF Len(s) <= k THEN s ELSE SubSeq(s, 1, k)
Prices(s) == [i \in DOMAIN s |-> s[i][2]]

\* sorted(clustered, key=time, reverse=True)[:3], prices only
recent_levels(clustered) == Prices(FirstRows(Sort("time", clustered), 3))

detect_support_resistance(w) ==
    IF Empty \/ Len(df) < w * 2 THEN NoLevels
    ELSE [keys |-> {"support", "resistance"},
          support |-> recent_levels(cluster_levels(support_levels(w))),
          resistance |-> recent_levels(cluster_levels(resistance_levels(w)))]

-----------------------------------------------------------------------------
(* predict_price_levels *)

current_price == Rat(df[Len(df)].close)

Two == Rat(2)
Three == Rat(3)

recent_buy_signals == SelectSeq(signals, LAMBDA r : r.signal = 1)
recent_sell_signals == SelectSeq(signals, LAMBDA r : r.signal = -1)

\* variant deciding by the latest returned row alone
SignalBranchOfLatest ==
    IF signals = <<>> THEN "market"
    ELSE IF signals[Len(signals)].signal = 1 THEN "buy"
    ELSE IF signals[Len(signals)].signal = -1 THEN "sell"
    ELSE "market"
\* the if / elif / else over the recent buy and sell signals
SignalBranch ==
    IF recent_buy_signals # <<>> THEN "buy"
    ELSE IF recent_sell_signals # <<>> THEN "sell"
    ELSE "market"

HasLevels(kind) == kind \in levels.keys /\ levels[kind] # <<>>

Above(lv, x) == SelectSeq(lv, LAMBDA r : RGt(r, x))
Below(lv, x) == SelectSeq(lv, LAMBDA r : RLt(r, x))

\* variants with the comparison turned round, for telling min from max
RECURSIVE MinOfTakesLargest(_)
MinOfTakesLargest(s) ==
    IF Len(s) = 1 THEN s[1]
    ELSE LET m == MinOfTakesLargest(Tail(s)) IN IF RGe(s[1], m) THEN s[1] ELSE m
RECURSIVE MaxOfTakesSmallest(_)
MaxOfTakesSmallest(s) ==
    IF Len(s) = 1 THEN s[1]
    ELSE LET m == MaxOfTakesSmallest(Tail(s)) IN IF RLe(s[1], m) THEN s[1] ELSE m

RECURSIVE MinOf(_)
MinOf(s) == IF Len(s) = 1 THEN s[1]
            ELSE LET m == MinOf(Tail(s)) IN IF RLe(s[1], m) THEN s[1] ELSE m
RECURSIVE MaxOf(_)
MaxOf(s) == IF Len(s) = 1 THEN s[1]
            ELSE LET m == MaxOf(Tail(s)) IN IF RGe(s[1], m) THEN s[1] ELSE m

\* min(lv, key=lambda x: abs(x - p)): the first of the closest
RECURSIVE Nearest(_, _)
Nearest(lv, p) ==
    IF Len(lv) = 1 THEN lv[1]
    ELSE LET m == Nearest(Tail(lv), p)
         IN  IF RLe(RAbs(RSub(lv[1], p)), RAbs(RSub(m, p))) THEN lv[1] ELSE m

\* abs(x - p) / p < 0.01
Within1Pct(x, p) == RLt(RDiv(RAbs(RSub(x, p)), p), <<1, 100>>)

PredictFrame == UNCHANGED <<df, columns, indexKind, caller, threshold, signals, atr, levels, result>>

\* entry: the short-table return, or atr, levels and the call of generate_signals(df)
PredictPriceLevels ==
    /\ Idle
    /\ entry_level' = None /\ exit_level' = None /\ stop_loss' = None /\ setup' = "none"
    /\ IF Empty \/ Len(df) < MinBars
       THEN /\ result' = [kind |-> "setup",
                          value |-> [entry |-> None, exit |-> None, stop_loss |-> None]]
            /\ pc' = "done"
            /\ UNCHANGED <<caller, threshold, signals, atr, levels>>
       ELSE /\ atr' = CHOOSE a \in ATR(AtrPeriod, Len(df)) : TRUE
            /\ levels' = detect_support_resistance(SRWindow)
            /\ caller' = "predict"
            /\ threshold' = DefaultThreshold
            /\ signals' = NewSignals
            /\ result' = NoResult
            /\ pc' = "ema"
    /\ UNCHANGED <<df, columns, indexKind>>
    /\ UNCHANGED <<args, local>>

\* if not recent_buy_signals.empty
SetupFromBuySignal ==
    /\ pc = "setup"
    /\ SignalBranch = "buy"
    /\ LET e == Rat(recent_buy_signals[Len(recent_buy_signals)].price)
           resistances_above == IF HasLevels("resistance") THEN Above(levels.resistance, e) ELSE <<>>
           supports_below == IF HasLevels("support") THEN Below(levels.support, e) ELSE <<>>
       IN  /\ entry_level' = e
           /\ exit_level' = IF resistances_above # <<>> THEN MinOf(resistances_above)
                            ELSE RMul(e, <<102, 100>>)
           /\ stop_loss' = IF supports_below # <<>> THEN MaxOf(supports_below)
                           ELSE RSub(e, RMul(Two, atr))
    /\ setup' = "buy"
    /\ pc' = "return"
    /\ PredictFrame
    /\ UNCHANGED <<args, local>>

\* elif not recent_sell_signals.empty
SetupFromSellSignal ==
    /\ pc = "setup"
    /\ SignalBranch = "sell"
    /\ LET e == Rat(recent_sell_signals[Len(recent_sell_signals)].price)
           supports_below == IF HasLevels("support") THEN Below(levels.support, e) ELSE <<>>
           resistances_above == IF HasLevels("resistance") THEN Above(levels.resistance, e) ELSE <<>>
       IN  /\ entry_level' = e
           /\ exit_level' = IF supports_below # <<>> THEN MaxOf(supports_below)
                            ELSE RMul(e, <<98, 100>>)
           /\ stop_loss' = IF resistances_above # <<>> THEN MinOf(resistances_above)
                           ELSE RAdd(e, RMul(Two, atr))
    /\ setup' = "sell"
    /\ pc' = "return"
    /\ PredictFrame
    /\ UNCHANGED <<args, local>>

\* the levels the `if support ... elif resistance ...` statement leaves:
\* <<setup, entry, stop, exit>>, with stop None when neither branch assigns it
NearLevel ==
    IF HasLevels("support")
    THEN LET nearest_support == Nearest(levels.support, current_price)
         IN  IF Within1Pct(nearest_support, current_price)
             THEN <<"support", nearest_support, RSub(nearest_support, RMul(Two, atr)),
                    RAdd(nearest_support, RMul(Three, atr))>>
             ELSE <<"none", current_price, None, None>>
    ELSE IF HasLevels("resistance")
    THEN LET nearest_resistance == Nearest(levels.resistance, current_price)
         IN  IF Within1Pct(nearest_resistance, current_price)
             THEN <<"resistance", nearest_resistance, RAdd(nearest_resistance, RMul(Two, atr)),
                    RSub(nearest_resistance, RMul(Three, atr))>>
             ELSE <<"none", current_price, None, None>>
    ELSE <<"none", current_price, None, None>>

\* else: no signal, predict from the current market conditions
SetupFromMarket ==
    /\ pc = "setup"
    /\ SignalBranch = "market"
    /\ LET near == NearLevel
           n == Len(df)
       IN  IF near[3] # None
           THEN /\ setup' = near[1]
                /\ entry_level' = near[2]
                /\ stop_loss' = near[3]
                /\ exit_level' = near[4]
           ELSE IF df[n].close > df[n - 1].close
           THEN /\ setup' = "trend_up"
                /\ entry_level' = current_price
                /\ stop_loss' = RSub(current_price, RMul(Two, atr))
                /\ exit_level' = RAdd(current_price, RMul(Two, atr))
           ELSE /\ setup' = "trend_down"
                /\ entry_level' = current_price
                /\ stop_loss' = RAdd(current_price, RMul(Two, atr))
                /\ exit_level' = RSub(current_price, RMul(Two, atr))
    /\ pc' = "return"
    /\ PredictFrame
    /\ UNCHANGED <<args, local>>

\* the risk-reward ratio of lines 308-313
risk_reward(entry, exit, stop) ==
    IF Truthy(entry) /\ Truthy(exit) /\ Truthy(stop)
    THEN LET risk == RAbs(RSub(entry, stop))
             reward == RAbs(RSub(entry, exit))
         IN  IF RGt(risk, Rat(0)) THEN RDiv(reward, risk) ELSE Rat(0)
    ELSE Rat(0)

Last(c) == Cell(c, Len(df))

Clamp(c) == Max2(0, IF c <= 100 THEN c ELSE 100)

\* variant that also subtracts when the trend opposes the position
TrendScoreOpposed(long, short) ==
    IF Has("ema9") /\ Has("ema21")
    THEN IF long /\ Gt(Last("ema9"), Last("ema21")) THEN 10
         ELSE IF short /\ Lt(Last("ema9"), Last("ema21")) THEN 10
         ELSE IF Gt(Last("ema9"), Last("ema21")) \/ Lt(Last("ema9"), Last("ema21")) THEN -10
         ELSE 0
    ELSE 0
\* += 0.1 when ema9 and ema21 of the last row agree with the position
TrendScore(long, short) ==
    IF Has("ema9") /\ Has("ema21")
    THEN IF long /\ Gt(Last("ema9"), Last("ema21")) THEN 10
         ELSE IF short /\ Lt(Last("ema9"), Last("ema21")) THEN 10
         ELSE 0
    ELSE 0

RsiScore(long) ==
    IF Has("rsi")
    THEN IF long
         THEN IF Lt(Last("rsi"), Val(RsiOversold)) THEN 10
              ELSE IF Gt(Last("rsi"), Val(RsiOverbought)) THEN -10 ELSE 0
         ELSE IF Gt(Last("rsi"), Val(RsiOverbought)) THEN 10
              ELSE IF Lt(Last("rsi"), Val(RsiOversold)) THEN -10 ELSE 0
    ELSE 0

MacdScore(long) ==
    IF Has("macd") /\ Has("macd_signal")
    THEN IF long
         THEN IF Gt(Last("macd"), Last("macd_signal")) THEN 10 ELSE -10
         ELSE IF Lt(Last("macd"), Last("macd_signal")) THEN 10 ELSE -10
    ELSE 0

\* price <= lower * 1.01 and price >= upper * 0.99, on hundredths
NearLower == Le({100 * v : v \in Last("close")}, {101 * v : v \in Last("bb_lower")})
NearUpper == Ge({100 * v : v \in Last("close")}, {99 * v : v \in Last("bb_upper")})

BbScore(long) ==
    IF {"bb_upper", "bb_lower", "bb_middle"} \subseteq columns
    THEN IF long
         THEN IF NearLower THEN 10 ELSE IF NearUpper THEN -10 ELSE 0
         ELSE IF NearUpper THEN 10 ELSE IF NearLower THEN -10 ELSE 0
    ELSE 0

RiskRewardScore(entry, exit, stop) ==
    LET risk == RAbs(RSub(entry, stop))
        reward == RAbs(RSub(entry, exit))
    IN  IF RGt(risk, Rat(0))
        THEN LET rr == RDiv(reward, risk)
             IN  IF RGe(rr, Rat(2)) THEN 10
                 ELSE IF RGe(rr, <<3, 2>>) THEN 5
                 ELSE IF RLt(rr, Rat(1)) THEN -10
                 ELSE 0
        ELSE 0

\* the running total before the clamp
RawConfidence(entry, exit, stop) ==
    LET long == RLt(entry, exit)
        short == RGt(entry, exit)
    IN  50 + TrendScore(long, short) + RsiScore(long) + MacdScore(long) + BbScore(long)
           + RiskRewardScore(entry, exit, stop)

\* variant on a scale of 0..100 in place of 0..1
calculate_setup_confidence_percent(entry, exit, stop) ==
    IF Empty \/ entry = None \/ exit = None \/ stop = None THEN 0
    ELSE 100 * Clamp(RawConfidence(entry, exit, stop))
calculate_setup_confidence(entry, exit, stop) ==
    IF Empty \/ entry = None \/ exit = None \/ stop = None THEN 0
    ELSE Clamp(RawConfidence(entry, exit, stop))

RoundPrice(x) == IF Truthy(x) THEN Round(x, UnitDecimalsKept) ELSE None

SetupRecord(entry, exit, stop) ==
    [entry |-> RoundPrice(entry),
     exit |-> RoundPrice(exit),
     stop_loss |-> RoundPrice(stop),
     risk_reward |-> Round(risk_reward(entry, exit, stop), RatioDecimals),
     confidence |-> calculate_setup_confidence(entry, exit, stop)]

ReturnSetup ==
    /\ pc = "return"
    /\ result' = [kind |-> "setup", value |-> SetupRecord(entry_level, exit_level, stop_loss)]
    /\ pc' = "done"
    /\ UNCHANGED <<df, columns, indexKind, caller, threshold, signals, atr, levels,
                   entry_level, exit_level, stop_loss, setup>>
    /\ UNCHANGED <<args, local>>

\* arguments of a direct call of _calculate_setup_confidence: complete setups,
\* long and short, and setups with a missing field
ConfidenceArgs ==
    {<<None, None, None>>, <<Rat(Px.base), None, Rat(Px.base - 10)>>,
     <<Rat(Px.base), Rat(Px.base + 20), Rat(Px.base - 10)>>,
     <<Rat(Px.base), Rat(Px.base - 5), Rat(Px.base + 10)>>}

CalculateSetupConfidence ==
    /\ Idle
    /\ \E a \in ConfidenceArgs :
          /\ entry_level' = a[1]
          /\ exit_level' = a[2]
          /\ stop_loss' = a[3]
          /\ result' = [kind |-> "confidence",
                        value |-> calculate_setup_confidence(a[1], a[2], a[3])]
    /\ pc' = "done"
    /\ UNCHANGED <<df, columns, indexKind, caller, threshold, signals, atr, levels, setup>>
    /\ UNCHANGED <<args, local>>

-----------------------------------------------------------------------------

Init ==
    /\ \E sc \in Scenarios :
          /\ df = MkTable(sc)
          /\ columns = sc.cols
          /\ indexKind = sc.idx
          /\ threshold = sc.th
    /\ pc = "idle"
    /\ caller = "none"
    /\ signals = <<>>
    /\ atr = None
    /\ levels = NoLevels
    /\ entry_level = None
    /\ exit_level = None
    /\ stop_loss = None
    /\ setup = "none"
    /\ result = NoResult
    /\ args = NoArgs
    /\ local = NoLocal

Next ==
    \/ GenerateSignals
    \/ EMACrossover
    \/ RSISignals
    \/ MACDSignals
    \/ BollingerSignals
    \/ ApplyThreshold
    \/ RecentSignals
    \/ PredictPriceLevels
    \/ SetupFromBuySignal
    \/ SetupFromSellSignal
    \/ SetupFromMarket
    \/ ReturnSetup
    \/ CalculateSetupConfidence

Spec == Init /\ [][Next]_vars

-----------------------------------------------------------------------------
(* Calls of TechnicalIndicators on tables of candles without indicators *)

\* a candle of the plain table handed to TechnicalIndicators
Candle(i, close, high, low) == [timestamp |-> i, close |-> close, high |-> high, low |-> low]

\* rows at which a table may dip or peak: three rows apart, so that each is
\* alone in its rolling window, and inside range(window, len(df) - window)
DipRows == <<SRWindow + 1, SRWindow + 4, SRWindow + 7, SRWindow + 10>>
PeakRow == SRWindow + 2
Plain == [low |-> 1000, high |-> 1050, close |-> 1020]
PlainLow == Plain.low
PlainHigh == Plain.high
\* lows of a dip: 900, 904 and 908 are each within 0.5% of the next one only
DipLows == {PlainLow, 900, 904, 908, 950, 990}
PeakHighs == {PlainHigh, 1100}

DipTable(n, dips, peak) ==
    [i \in 1..n |->
        Candle(i, Plain.close,
               IF i = PeakRow THEN peak ELSE PlainHigh,
               IF \E k \in 1..4 : DipRows[k] = i
               THEN dips[CHOOSE k \in 1..4 : DipRows[k] = i] ELSE PlainLow)]

DetectTables ==
    {DipTable(n, <<PlainLow, PlainLow, PlainLow, PlainLow>>, PlainHigh) :
        n \in {0, 1, 2 * SRWindow - 1, 2 * SRWindow}}
    \cup {DipTable(n, <<a, b, c, d>>, p) :
            n \in MaxDetectBars..MaxDetectBars, a \in DipLows, b \in DipLows,
            c \in DipLows, d \in DipLows, p \in PeakHighs}

DetectArgs == [call |-> "detect_support_resistance", window |-> SRWindow]

\* the clusters built by the loop of cluster_levels, as lists of their members
RECURSIVE ClusterMembers(_, _, _, _)
ClusterMembers(lv, i, current_cluster, clustered) ==
    IF i > Len(lv) THEN Append(clustered, current_cluster)
    ELSE IF SameCluster(current_cluster[Len(current_cluster)][2], lv[i][2])
         THEN ClusterMembers(lv, i + 1, Append(current_cluster, lv[i]), clustered)
         ELSE ClusterMembers(lv, i + 1, <<lv[i]>>, Append(clustered, current_cluster))

\* `clustered` when cluster_levels returns: nothing when the levels are empty or
\* the mean timestamp of a cluster cannot be taken
clustered_members(lv) ==
    IF lv = <<>> THEN <<>>
    ELSE IF indexKind # "datetime" THEN <<>>
    ELSE LET sorted == Sort("price", lv)
         IN  ClusterMembers(sorted, 2, <<sorted[1]>>, <<>>)

\* detect_support_resistance(df, window): the table is copied before the
\* columns min and max are added to it
DetectSupportResistance ==
    /\ Idle
    /\ args.call = "detect_support_resistance"
    /\ local' = IF Empty \/ Len(df) < args.window * 2 THEN NoLocal
                ELSE [obj |-> TableCopy, columns |-> columns \cup {"min", "max"}]
    /\ columns' = IF local'.obj = CallerTable THEN local'.columns ELSE columns
    /\ levels' = detect_support_resistance(args.window)
    /\ result' = [kind |-> "levels", value |-> levels', obj |-> "dict"]
    /\ pc' = "done"
    /\ UNCHANGED <<df, indexKind, caller, threshold, signals, atr,
                   entry_level, exit_level, stop_loss, setup, args>>

-----------------------------------------------------------------------------
(* SMA, BBANDS and RSI on a series: the close column of the table *)

SeriesValues == {10, 11, 13}
SeriesOf(n) == [1..n -> SeriesValues]
SeriesTable(closes) == [i \in DOMAIN closes |-> Candle(i, closes[i], closes[i] + 1, closes[i] - 1)]
SeriesTables == {SeriesTable(c) : c \in UNION {SeriesOf(n) : n \in 0..MaxSeriesLen}}
Periods == 1..(MaxSeriesLen + 1)
Deviations == {<<0, 0>>, <<2, 2>>, <<1, 2>>}
SeriesArgs ==
    {[call |-> "SMA", timeperiod |-> p] : p \in Periods}
    \cup {[call |-> "RSI", timeperiod |-> p] : p \in Periods}
    \cup {[call |-> "ATR", timeperiod |-> p] : p \in Periods}
    \cup {[call |-> "BBANDS", timeperiod |-> p, nbdevup |-> d[1], nbdevdn |-> d[2]] :
            p \in Periods, d \in Deviations}

\* df['close'] as a series of defined values
close_series == [i \in Bars |-> Val(Rat(df[i].close))]

Defined(x) == x # NaN
The(x) == CHOOSE v \in x : TRUE

RECURSIVE SumOver(_, _, _)
SumOver(s, a, b) == IF a > b THEN Rat(0) ELSE RAdd(The(s[b]), SumOver(s, a, b - 1))

\* the window of `window` rows ending at row i holds `window` defined values
FullWindow(s, window, i) == i >= window /\ \A k \in (i - window + 1)..i : Defined(s[k])

\* series.rolling(window).mean()
rolling_mean(s, window) ==
    [i \in DOMAIN s |->
        IF FullWindow(s, window, i)
        THEN Val(RDiv(SumOver(s, i - window + 1, i), Rat(window))) ELSE NaN]

\* variant whose window is the row itself
SMAOfOneRow(series, timeperiod) == rolling_mean(series, 1)
SMA(series, timeperiod) == rolling_mean(series, timeperiod)

\* floor of the square root of a natural number
RECURSIVE ISqrt(_)
ISqrt(n) ==
    IF n < 2 THEN n
    ELSE LET r == 2 * ISqrt(n \div 4) IN IF (r + 1) * (r + 1) <= n THEN r + 1 ELSE r

\* the square root of a rational >= 0, to SqrtDigits decimals
Sqrt(x) ==
    LET s == Pow10(SqrtDigits)
    IN  RNorm(ISqrt((x[1] * s * s) \div x[2]), s)

RECURSIVE SumSquares(_, _, _, _)
SumSquares(s, m, a, b) ==
    IF a > b THEN Rat(0)
    ELSE RAdd(RMul(RSub(The(s[b]), m), RSub(The(s[b]), m)), SumSquares(s, m, a, b - 1))

\* series.rolling(window).std(): the sample deviation, undefined on one value
rolling_std(s, window) ==
    [i \in DOMAIN s |->
        IF FullWindow(s, window, i) /\ window > 1
        THEN LET m == RDiv(SumOver(s, i - window + 1, i), Rat(window))
             IN  Val(Sqrt(RDiv(SumSquares(s, m, i - window + 1, i), Rat(window - 1))))
        ELSE NaN]

\* elementwise arithmetic of series: undefined as soon as one side is
Plus(a, b) == IF Defined(a) /\ Defined(b) THEN Val(RAdd(The(a), The(b))) ELSE NaN
Minus(a, b) == IF Defined(a) /\ Defined(b) THEN Val(RSub(The(a), The(b))) ELSE NaN
Times(a, k) == IF Defined(a) THEN Val(RMul(The(a), Rat(k))) ELSE NaN

\* variant adding the lower deviation
BBANDSLowerAdded(series, timeperiod, nbdevup, nbdevdn) ==
    LET middle == SMA(series, timeperiod)
        std_dev == rolling_std(series, timeperiod)
    IN  [upper  |-> [i \in DOMAIN series |-> Plus(middle[i], Times(std_dev[i], nbdevup))],
         middle |-> middle,
         lower  |-> [i \in DOMAIN series |-> Plus(middle[i], Times(std_dev[i], nbdevdn))]]
BBANDS(series, timeperiod, nbdevup, nbdevdn) ==
    LET middle == SMA(series, timeperiod)
        std_dev == rolling_std(series, timeperiod)
    IN  [upper  |-> [i \in DOMAIN series |-> Plus(middle[i], Times(std_dev[i], nbdevup))],
         middle |-> middle,
         lower  |-> [i \in DOMAIN series |-> Minus(middle[i], Times(std_dev[i], nbdevdn))]]

\* series.diff()
diff(s) == [i \in DOMAIN s |-> IF i = 1 THEN NaN ELSE Minus(s[i], s[i - 1])]
Zero == Val(Rat(0))
\* delta.where(delta > 0, 0) and -delta.where(delta < 0, 0)
Positive(x) == Defined(x) /\ RGt(The(x), Rat(0))
Negative(x) == Defined(x) /\ RLt(The(x), Rat(0))
gain(delta) == [i \in DOMAIN delta |-> IF Positive(delta[i]) THEN delta[i] ELSE Zero]
loss(delta) == [i \in DOMAIN delta |-> IF Negative(delta[i]) THEN Minus(Zero, delta[i]) ELSE Zero]

\* the rolling mean, then from row timeperiod on (counted from 0) the update
\* avg[i] = (avg[i-1] * (timeperiod-1) + x[i]) / timeperiod
RECURSIVE Smoothed(_, _, _)
Smoothed(x, timeperiod, i) ==
    IF i <= timeperiod THEN rolling_mean(x, timeperiod)[i]
    ELSE LET prev == Smoothed(x, timeperiod, i - 1)
         IN  Val(RDiv(RAdd(RMul(The(prev), Rat(timeperiod - 1)), The(x[i])), Rat(timeperiod)))
avg_gain(series, timeperiod) ==
    [i \in DOMAIN series |-> Smoothed(gain(diff(series)), timeperiod, i)]
avg_loss(series, timeperiod) ==
    [i \in DOMAIN series |-> Smoothed(loss(diff(series)), timeperiod, i)]

\* float division: x / 0 is infinite, 0 / 0 is undefined
Inf == <<1, 0>>
Divide(a, b) ==
    IF ~Defined(a) \/ ~Defined(b) THEN NaN
    ELSE IF RZero(The(b)) THEN (IF RZero(The(a)) THEN NaN ELSE Val(Inf))
    ELSE Val(RDiv(The(a), The(b)))

\* variant multiplying by 1 + rs
rsi_below(rs) ==
    IF ~Defined(rs) THEN NaN
    ELSE IF The(rs) = Inf THEN Val(Rat(100))
    ELSE Val(RSub(Rat(100), RMul(Rat(100), RAdd(Rat(1), The(rs)))))
\* 100 - (100 / (1 + rs))
rsi(rs) ==
    IF ~Defined(rs) THEN NaN
    ELSE IF The(rs) = Inf THEN Val(Rat(100))
    ELSE Val(RSub(Rat(100), RDiv(Rat(100), RAdd(Rat(1), The(rs)))))

RSI(series, timeperiod) ==
    LET g == avg_gain(series, timeperiod)
        l == avg_loss(series, timeperiod)
    IN  [i \in DOMAIN series |-> rsi(Divide(g[i], l[i]))]

\* a call of SMA, RSI or BBANDS on the close column; the result is a new series
Series(v) == [kind |-> "series", value |-> v, obj |-> "series"]
CallSMA ==
    /\ Idle
    /\ args.call = "SMA"
    /\ result' = Series(SMA(close_series, args.timeperiod))
    /\ pc' = "done"
    /\ UNCHANGED <<df, columns, indexKind, caller, threshold, signals, atr, levels,
                   entry_level, exit_level, stop_loss, setup, args, local>>
CallRSI ==
    /\ Idle
    /\ args.call = "RSI"
    /\ result' = Series(RSI(close_series, args.timeperiod))
    /\ pc' = "done"
    /\ UNCHANGED <<df, columns, indexKind, caller, threshold, signals, atr, levels,
                   entry_level, exit_level, stop_loss, setup, args, local>>
CallBBANDS ==
    /\ Idle
    /\ args.call = "BBANDS"
    /\ result' = [kind |-> "bands", obj |-> "tuple",
                  value |-> BBANDS(close_series, args.timeperiod, args.nbdevup, args.nbdevdn)]
    /\ pc' = "done"
    /\ UNCHANGED <<df, columns, indexKind, caller, threshold, signals, atr, levels,
                   entry_level, exit_level, stop_loss, setup, args, local>>

\* a call of ATR on the high, low and close columns
CallATR ==
    /\ Idle
    /\ args.call = "ATR"
    /\ result' = Series([i \in Bars |-> ATR(args.timeperiod, i)])
    /\ pc' = "done"
    /\ UNCHANGED <<df, columns, indexKind, caller, threshold, signals, atr, levels,
                   entry_level, exit_level, stop_loss, setup, args, local>>

-----------------------------------------------------------------------------
(* TechnicalIndicators.add_indicators *)

\* decimals kept of an exponential average
EmaDigits == SqrtDigits

\* series.ewm(span=timeperiod, adjust=False).mean():
\* y[0] = x[0], y[i] = (1 - a) * y[i-1] + a * x[i] with a = 2 / (timeperiod + 1)
RECURSIVE Ewm(_, _, _)
Ewm(series, timeperiod, i) ==
    IF i = 1 THEN series[1]
    ELSE LET prev == Ewm(series, timeperiod, i - 1)
         IN  IF ~Defined(prev) \/ ~Defined(series[i]) THEN NaN
             ELSE Val(Round(RDiv(RAdd(RMul(Rat(timeperiod - 1), The(prev)),
                                      RMul(Rat(2), The(series[i]))),
                                 Rat(timeperiod + 1)), EmaDigits))
EMA(series, timeperiod) == [i \in DOMAIN series |-> Ewm(series, timeperiod, i)]

MACD(series, fastperiod, slowperiod, signalperiod) ==
    LET fast_ema == EMA(series, fastperiod)
        slow_ema == EMA(series, slowperiod)
        macd_line == [i \in DOMAIN series |-> Minus(fast_ema[i], slow_ema[i])]
        signal_line == EMA(macd_line, signalperiod)
    IN  [macd |-> macd_line, signal |-> signal_line,
         hist |-> [i \in DOMAIN series |-> Minus(macd_line[i], signal_line[i])]]

\* the Series returned by ATR: its index is a new RangeIndex, whatever df's is
atr_series(timeperiod) == [i \in Bars |-> ATR(timeperiod, i)]

\* df[name] = a Series with a RangeIndex: the values are matched to the rows
\* by index label, so none is found when df is not indexed 0..n-1
AlignRangeIndexed(series) ==
    IF indexKind = "range" THEN series ELSE [i \in DOMAIN series |-> NaN]

\* the indicators dict: given or None, `on` the keys set to True, `off` to False
NoSelection == [given |-> FALSE, on |-> {}, off |-> {}]
Selection(on, off) == [given |-> TRUE, on |-> on, off |-> off]
DefaultIndicators ==
    {"EMA 9", "EMA 21", "EMA 50", "EMA 200", "Bollinger Bands", "RSI", "MACD", "Volume"}
\* indicators.get(name, False), after the defaults of `indicators is None`
Enabled(indicators, name) ==
    IF indicators.given THEN name \in indicators.on ELSE name \in DefaultIndicators

\* the columns assigned for an indicator, in the order of the code
IndicatorColumns ==
    <<<<"EMA 9", <<"ema9">>>>, <<"EMA 21", <<"ema21">>>>, <<"EMA 50", <<"ema50">>>>,
      <<"EMA 200", <<"ema200">>>>,
      <<"Bollinger Bands", <<"bb_upper", "bb_middle", "bb_lower">>>>,
      <<"RSI", <<"rsi">>>>, <<"MACD", <<"macd", "macd_signal", "macd_hist">>>>,
      <<"ATR", <<"atr">>>>>>

\* the value assigned to a column
IndicatorColumn(c) ==
    LET close == close_series
    IN  CASE c = "ema9"        -> EMA(close, 9)
          [] c = "ema21"       -> EMA(close, 21)
          [] c = "ema50"       -> EMA(close, 50)
          [] c = "ema200"      -> EMA(close, 200)
          [] c = "bb_upper"    -> BBANDS(close, 20, 2, 2).upper
          [] c = "bb_middle"   -> BBANDS(close, 20, 2, 2).middle
          [] c = "bb_lower"    -> BBANDS(close, 20, 2, 2).lower
          [] c = "rsi"         -> RSI(close, 14)
          [] c = "macd"        -> MACD(close, 12, 26, 9).macd
          [] c = "macd_signal" -> MACD(close, 12, 26, 9).signal
          [] c = "macd_hist"   -> MACD(close, 12, 26, 9).hist
          [] c = "atr"         -> AlignRangeIndexed(atr_series(14))

AddedColumns(indicators) ==
    UNION {{IndicatorColumns[k][2][j] : j \in DOMAIN IndicatorColumns[k][2]} :
              k \in {k \in DOMAIN IndicatorColumns : Enabled(indicators, IndicatorColumns[k][1])}}

\* add_indicators(df, indicators): the empty table is returned as it is, any
\* other is copied and the copy receives the columns
AddIndicators ==
    /\ Idle
    /\ args.call = "add_indicators"
    /\ IF Empty
       THEN /\ local' = NoLocal
            /\ columns' = columns
            /\ result' = [kind |-> "table", obj |-> CallerTable, rows |-> Len(df),
                          columns |-> columns, col |-> <<>>]
       ELSE /\ local' = [obj |-> TableCopy,
                         columns |-> columns \cup AddedColumns(args.indicators)]
            /\ columns' = IF local'.obj = CallerTable THEN local'.columns ELSE columns
            /\ result' = [kind |-> "table", obj |-> local'.obj, rows |-> Len(df),
                          columns |-> local'.columns,
                          col |-> [c \in AddedColumns(args.indicators) |-> IndicatorColumn(c)]]
    /\ pc' = "done"
    /\ UNCHANGED <<df, indexKind, caller, threshold, signals, atr, levels,
                   entry_level, exit_level, stop_loss, setup, args>>

\* the inputs of add_indicators: short tables, and tables one row longer than
\* the lookback of ATR and RSI that are flat but for the last close
IndicatorNames == {IndicatorColumns[k][1] : k \in DOMAIN IndicatorColumns} \cup {"Volume"}
LongCloses == {[i \in 1..(AtrPeriod + 1) |-> IF i = AtrPeriod + 1 THEN last ELSE 11] :
                  last \in SeriesValues}
IndicatorTables ==
    {SeriesTable(c) : c \in UNION {SeriesOf(n) : n \in 0..(MaxSeriesLen - 2)} \cup LongCloses}
Selections ==
    {NoSelection}
    \cup {Selection(on, off) :
            on \in {{}, IndicatorNames} \cup {{x} : x \in IndicatorNames}
                   \cup {IndicatorNames \ {x} : x \in IndicatorNames},
            off \in {{}}}
    \cup {Selection(on, IndicatorNames \ on) : on \in {{x} : x \in IndicatorNames}}

IndicatorInit ==
    /\ \/ /\ df \in DetectTables
          /\ indexKind \in {"range", "datetime"}
          /\ args = DetectArgs
       \/ /\ df \in SeriesTables
          /\ indexKind = "range"
          /\ args \in SeriesArgs
       \/ /\ df \in IndicatorTables
          /\ indexKind \in {"range", "datetime"}
          /\ args \in {[call |-> "add_indicators", indicators |-> sel] : sel \in Selections}
    /\ columns = {}
    /\ pc = "idle"
    /\ caller = "none"
    /\ threshold = DefaultThreshold
    /\ signals = <<>>
    /\ atr = None
    /\ levels = NoLevels
    /\ entry_level = None
    /\ exit_level = None
    /\ stop_loss = None
    /\ setup = "none"
    /\ result = NoResult
    /\ local = NoLocal

IndicatorNext ==
    \/ DetectSupportResistance
    \/ CallSMA
    \/ CallRSI
    \/ CallBBANDS
    \/ CallATR
    \/ AddIndicators

IndicatorSpec == IndicatorInit /\ [][IndicatorNext]_vars

-----------------------------------------------------------------------------
(* Properties *)

Returned == pc = "done" /\ result.kind = "setup"
SetupFields == {"entry", "exit", "stop_loss", "confidence", "risk_reward"}
Predicted == caller = "predict" /\ pc \in {"return", "done"}

\* C1: on a table of fewer than 20 rows (the empty one included)
\* predict_price_levels returns a record with all five fields, in which entry,
\* exit and stop_loss are none, confidence is 0 and risk_reward is 0.
C1_ShortTableRecord ==
    (Returned /\ Len(df) < MinBars) =>
        /\ SetupFields \subseteq DOMAIN result.value
        /\ result.value.entry = None
        /\ result.value.exit = None
        /\ result.value.stop_loss = None
        /\ result.value.confidence = 0
        /\ result.value.risk_reward = Rat(0)

\* the rules in their fixed precedence, as <<fired, direction, confidence>>
C2_Rules(i) ==
    <<<<Has("ema9") /\ Has("ema21") /\ ema_cross_up[i], 1,
        IF Has("ema50") THEN buy_confidence[i] ELSE EmaBase>>,
      <<Has("ema9") /\ Has("ema21") /\ ema_cross_down[i], -1,
        IF Has("ema50") THEN sell_confidence[i] ELSE EmaBase>>,
      <<Has("rsi") /\ rsi_buy[i], 1, RsiConfidence>>,
      <<Has("rsi") /\ rsi_sell[i], -1, RsiConfidence>>,
      <<Has("macd") /\ Has("macd_signal") /\ macd_cross_up[i], 1, MacdConfidence>>,
      <<Has("macd") /\ Has("macd_signal") /\ macd_cross_down[i], -1, MacdConfidence>>,
      <<{"bb_upper", "bb_lower", "bb_middle"} \subseteq columns /\ bb_buy[i], 1, BbConfidence>>,
      <<{"bb_upper", "bb_lower", "bb_middle"} \subseteq columns /\ bb_sell[i], -1, BbConfidence>>>>
C2_Fired(rules) == {k \in 1..8 : rules[k][1]}
C2_MaxConfidence(rules) ==
    IF C2_Fired(rules) = {} THEN 0
    ELSE CHOOSE c \in {rules[k][3] : k \in C2_Fired(rules)} :
             \A k \in C2_Fired(rules) : rules[k][3] <= c
C2_FirstAtMax(rules) ==
    LET top == {k \in C2_Fired(rules) : rules[k][3] = C2_MaxConfidence(rules)}
    IN  CHOOSE k \in top : \A j \in top : k <= j

C3_ReturnedRows ==
    result.kind = "signals" =>
        \A k \in DOMAIN result.rows :
            /\ result.rows[k].bar > Len(df) - RecentWindow
            /\ k > 1 => result.rows[k - 1].bar < result.rows[k].bar
            /\ result.rows[k].signal # 0
            /\ result.rows[k].confidence >= threshold

C4_OnlyEmaUp(b) == C2_Fired(C2_Rules(b)) = {1}

\* C4: when ema9 crosses above ema21 on a row and no other rule fires on that
\* row, generate_signals with the default threshold returns a buy for that row
\* with a confidence of at least 0.6 and the EMA crossover as its reason.
C4_EmaCrossReported ==
    (caller = "user" /\ threshold = DefaultThreshold /\ pc \in {"done", "raised"}) =>
        \A b \in Bars :
            C4_OnlyEmaUp(b) =>
                /\ result.kind = "signals"
                /\ \E k \in DOMAIN result.rows :
                      /\ result.rows[k].bar = b
                      /\ result.rows[k].signal = 1
                      /\ result.rows[k].confidence >= DefaultThreshold
                      /\ result.rows[k].reason = "EMA9 crossed above EMA21"

C5_Missing == entry_level = None \/ exit_level = None \/ stop_loss = None

C6_Rows(dir) == {k \in DOMAIN signals : signals[k].signal = dir}
C6_Latest(dir) == CHOOSE k \in C6_Rows(dir) : \A j \in C6_Rows(dir) : j <= k
C6_Fallbacks == {"support", "resistance", "trend_up", "trend_down"}

\* C6: with a buy in the recent signals the setup is long from the latest buy,
\* whatever sells follow it; it is short from the latest sell only when there
\* is no buy; the fallback is used only when there is neither.
C6_BuyBeforeSell ==
    Predicted =>
        /\ C6_Rows(1) # {} =>
              /\ setup = "buy"
              /\ entry_level = Rat(signals[C6_Latest(1)].price)
              /\ RLt(entry_level, exit_level)
        /\ (C6_Rows(1) = {} /\ C6_Rows(-1) # {}) =>
              /\ setup = "sell"
              /\ entry_level = Rat(signals[C6_Latest(-1)].price)
        /\ setup = "sell" => C6_Rows(1) = {}
        /\ setup \in C6_Fallbacks <=> (C6_Rows(1) = {} /\ C6_Rows(-1) = {})

\* a long setup from a buy that a sell follows
C6_Witness ==
    /\ Predicted
    /\ pc = "done"
    /\ setup = "buy"
    /\ \E i \in C6_Rows(1) : \E j \in C6_Rows(-1) : i < j

C7_Levels(kind) ==
    IF kind \in levels.keys THEN {levels[kind][k] : k \in DOMAIN levels[kind]} ELSE {}
C7_Above(kind) == {r \in C7_Levels(kind) : RGt(r, entry_level)}
C7_Below(kind) == {r \in C7_Levels(kind) : RLt(r, entry_level)}
C7_TwiceAtr == RMul(Rat(2), atr)

C8_ShortFromSell ==
    (Predicted /\ setup = "sell") =>
        /\ entry_level = Rat(signals[C6_Latest(-1)].price)
        /\ IF C7_Below("support") # {}
           THEN /\ exit_level \in C7_Below("support")
                /\ \A r \in C7_Below("support") : RGe(exit_level, r)
           ELSE exit_level = RMul(entry_level, <<98, 100>>)
        /\ IF C7_Above("resistance") # {}
           THEN /\ stop_loss \in C7_Above("resistance")
                /\ \A r \in C7_Above("resistance") : RLe(stop_loss, r)
           ELSE stop_loss = RAdd(entry_level, C7_TwiceAtr)
        /\ (RGt(entry_level, Rat(0)) /\ RGt(atr, Rat(0)))
              => (RLt(exit_level, entry_level) /\ RLt(entry_level, stop_loss))

\* a short setup with two supports below the entry and a resistance above it
C8_Witness ==
    /\ Predicted
    /\ pc = "done"
    /\ setup = "sell"
    /\ Cardinality(C7_Below("support")) >= 2
    /\ C7_Above("resistance") # {}

C9_Near(kind) ==
    /\ HasLevels(kind)
    /\ Within1Pct(Nearest(levels[kind], current_price), current_price)

\* C9: without a recent signal the cases are tried in order: close within 1% of
\* the nearest support: long at that support; otherwise close within 1% of the
\* nearest resistance: short at that resistance; otherwise trend continuation.
C9_FallbackOrder ==
    (Predicted /\ setup \in C6_Fallbacks) =>
        IF C9_Near("support") THEN setup = "support"
        ELSE IF C9_Near("resistance") THEN setup = "resistance"
        ELSE setup \in {"trend_up", "trend_down"}

C10_Ratio ==
    RDiv(RAbs(RSub(entry_level, exit_level)), RAbs(RSub(entry_level, stop_loss)))

\* C10: the setup returned on 20 rows or more has risk_reward = |entry - exit| /
\* |entry - stop| rounded to 2 decimals whenever stop differs from entry, and
\* a risk_reward of 0 only when stop equals entry (or the ratio rounds to 0),
\* a stop or exit price of exactly 0 included.
C10_RiskReward ==
    (Returned /\ Len(df) >= MinBars) =>
        /\ stop_loss # entry_level
              => result.value.risk_reward = Round(C10_Ratio, RatioDecimals)
        /\ result.value.risk_reward = Rat(0)
              => (stop_loss = entry_level \/ Round(C10_Ratio, RatioDecimals) = Rat(0))

Detected == pc = "done" /\ result.kind = "levels"
Kinds == {"support", "resistance"}
Extrema(kind) ==
    IF Empty \/ Len(df) < args.window * 2 THEN <<>>
    ELSE IF kind = "support" THEN support_levels(args.window)
    ELSE resistance_levels(args.window)
Clusters(kind) == clustered_members(Extrema(kind))
Members(c) == {c[k] : k \in DOMAIN c}
Elems(s) == {s[k] : k \in DOMAIN s}
\* the prices x <= y differ by less than 0.5% (of the lower one)
Within(x, y) == RLt(RSub(y, x), RMul(threshold_pct, x))
Close(a, b) == IF RLe(a[2], b[2]) THEN Within(a[2], b[2]) ELSE Within(b[2], a[2])
Together(kind, a, b) == \E k \in DOMAIN Clusters(kind) : {a, b} \subseteq Members(Clusters(kind)[k])

\* C11: any two collected extrema of one kind whose prices differ by less than
\* 0.5% are members of one and the same cluster, whatever else was collected.
C11_CloseExtremaShareCluster ==
    Detected =>
        \A kind \in Kinds : \A a \in Elems(Extrema(kind)) : \A b \in Elems(Extrema(kind)) :
            (a # b /\ Close(a, b)) => Together(kind, a, b)

\* C12: two collected extrema whose prices differ by more than 0.5% are never
\* members of the same cluster, whatever extrema lie between them.
C12_FarExtremaNeverShareCluster ==
    Detected =>
        \A kind \in Kinds : \A a \in Elems(Extrema(kind)) : \A b \in Elems(Extrema(kind)) :
            Together(kind, a, b) => (Close(a, b) \/ a[2] = b[2])

\* the groups the clustering rule makes of the collected extrema of a kind
Grouping(kind) ==
    LET sorted == Sort("price", Extrema(kind))
    IN  IF sorted = <<>> THEN <<>> ELSE ClusterMembers(sorted, 2, <<sorted[1]>>, <<>>)
ReturnedLevels(kind) == IF kind \in result.value.keys THEN result.value[kind] ELSE <<>>
MeanTime(c) == ClusterMean(c)[1]
MeanPrice(c) == ClusterMean(c)[2]
\* the sets of 3 clusters than which no other cluster is later
Latest3(g) ==
    {S \in SUBSET DOMAIN g :
        /\ Cardinality(S) = 3
        /\ \A i \in S : \A j \in DOMAIN g \ S : RGe(MeanTime(g[i]), MeanTime(g[j]))}

\* C13: at most 3 levels are returned per kind; with more than 3 clusters of a
\* kind the returned levels are those of 3 clusters with the latest mean
\* timestamps; every returned price is the mean of its cluster's prices.
C13_ThreeLatestClusters ==
    Detected =>
        \A kind \in Kinds :
            LET g == Grouping(kind)
                r == ReturnedLevels(kind)
            IN  /\ Len(r) <= 3
                /\ \A k \in DOMAIN r : \E i \in DOMAIN g : r[k] = MeanPrice(g[i])
                /\ Len(g) > 3 =>
                      \E S \in Latest3(g) :
                          /\ Len(r) = 3
                          /\ \A i \in S : \E k \in DOMAIN r : r[k] = MeanPrice(g[i])

\* C14: on fewer than 2 * window rows, and whenever no extremum is found, the
\* result has a support list and a resistance list, both empty.
C14_EmptyListsWhenNothingFound ==
    (Detected /\ (Len(df) < 2 * args.window
                  \/ (Extrema("support") = <<>> /\ Extrema("resistance") = <<>>))) =>
        /\ result.value.keys = Kinds
        /\ result.value.support = <<>>
        /\ result.value.resistance = <<>>

Called(f) == pc = "done" /\ args.call = f
Hundred == Val(Rat(100))

\* C15: RSI is 100 at every row with enough lookback at which the smoothed
\* average loss is exactly 0, the rows at which the average gain is 0 as well
\* included: never undefined there.
C15_RsiHundredWithoutLoss ==
    Called("RSI") =>
        \A i \in Bars :
            (i >= args.timeperiod /\ avg_loss(close_series, args.timeperiod)[i] = Zero)
                => result.value[i] = Hundred

\* C16: every defined value of RSI lies in [0, 100].
C16_RsiInRange ==
    Called("RSI") =>
        \A i \in DOMAIN result.value :
            Defined(result.value[i]) =>
                /\ RGe(The(result.value[i]), Rat(0))
                /\ RLe(The(result.value[i]), Rat(100))

\* an RSI strictly inside the range after gains and losses, and one at its top
C16_Witness ==
    /\ Called("RSI")
    /\ \E i \in DOMAIN result.value :
          /\ Defined(result.value[i])
          /\ RGt(The(result.value[i]), Rat(0))
          /\ RLt(The(result.value[i]), Rat(100))
    /\ \E i \in DOMAIN result.value : result.value[i] = Hundred

C17_Constant == \A i \in Bars : df[i].close = df[1].close
C17_AllDefined(i) ==
    /\ Defined(result.value.upper[i])
    /\ Defined(result.value.middle[i])
    /\ Defined(result.value.lower[i])

\* C17: with deviations >= 0, upper >= middle >= lower at every row where the
\* three are defined, middle being the SMA of the series; on a constant series
\* upper = middle = lower there.
C17_BandsOrdered ==
    Called("BBANDS") =>
        /\ result.value.middle = SMA(close_series, args.timeperiod)
        /\ \A i \in Bars :
              C17_AllDefined(i) =>
                  /\ RGe(The(result.value.upper[i]), The(result.value.middle[i]))
                  /\ RGe(The(result.value.middle[i]), The(result.value.lower[i]))
                  /\ C17_Constant =>
                        /\ result.value.upper[i] = result.value.middle[i]
                        /\ result.value.lower[i] = result.value.middle[i]

\* bands of positive width around a defined mean
C17_Witness ==
    /\ Called("BBANDS")
    /\ \E i \in Bars :
          /\ C17_AllDefined(i)
          /\ RGt(The(result.value.upper[i]), The(result.value.middle[i]))
          /\ RGt(The(result.value.middle[i]), The(result.value.lower[i]))

RECURSIVE C18_SumOfCloses(_, _)
C18_SumOfCloses(a, b) == IF a > b THEN 0 ELSE df[b].close + C18_SumOfCloses(a, b - 1)

\* C18: SMA returns as many entries as the series has, undefined before
\* `period` inputs exist and the mean of the last `period` inputs from there
\* on; with period > len(series) every entry is undefined.
C18_SmaIsTrailingMean ==
    Called("SMA") =>
        /\ DOMAIN result.value = Bars
        /\ \A i \in Bars :
              IF i < args.timeperiod THEN result.value[i] = NaN
              ELSE result.value[i] =
                       Val(RNorm(C18_SumOfCloses(i - args.timeperiod + 1, i), args.timeperiod))
        /\ args.timeperiod > Len(df) => \A i \in Bars : result.value[i] = NaN

\* a mean over several rows that differ, after undefined entries
C18_Witness ==
    /\ Called("SMA")
    /\ args.timeperiod >= 2
    /\ \E i \in Bars :
          /\ i > args.timeperiod
          /\ Defined(result.value[i])
          /\ df[i].close # df[i - 1].close
          /\ result.value[i] # result.value[i - 1]

C19_Calls == {"add_indicators", "detect_support_resistance"}

\* C19: a call never modifies the caller's table, and what it returns is a new
\* structure, not the caller's own table, the empty table included.
C19_CallerTableNotShared ==
    (pc = "done" /\ args.call \in C19_Calls) =>
        /\ columns = {}
        /\ local.obj # CallerTable
        /\ result.obj # CallerTable

C20_Names(k) == {IndicatorColumns[k][2][j] : j \in DOMAIN IndicatorColumns[k][2]}
\* the indicator of a column computed on the candles, row by row
C20_Positional(c) == IF c = "atr" THEN atr_series(14) ELSE IndicatorColumn(c)

\* C20: on a non-empty table add_indicators returns as many rows as it was
\* given, the columns of an indicator exactly when the selection enables it,
\* and in every such column one entry per candle, the entry of row i being the
\* indicator at candle i (undefined before the warm-up).
C20_ColumnsAligned ==
    (Called("add_indicators") /\ ~Empty) =>
        /\ result.rows = Len(df)
        /\ \A k \in DOMAIN IndicatorColumns :
              IF Enabled(args.indicators, IndicatorColumns[k][1])
              THEN C20_Names(k) \subseteq result.columns
              ELSE C20_Names(k) \cap result.columns = {}
        /\ \A c \in DOMAIN result.col :
              /\ DOMAIN result.col[c] = Bars
              /\ result.col[c] = C20_Positional(c)

\* C21: generate_signals and predict_price_levels never raise: whatever the
\* length of the table and the indicator columns present, a call ends with a
\* signals frame or a setup record.
C21_NeverRaises ==
    /\ pc # "raised"
    /\ result.kind # "raised"
    /\ (pc = "done" /\ caller = "user") => result.kind = "signals"
    /\ (pc = "done" /\ caller = "predict") => result.kind = "setup"

C22_Crossed == caller # "none" /\ pc \in {"rsi", "raised"} /\ Has("ema9") /\ Has("ema21")
C22_Bonus(i, above) ==
    IF ~Has("ema50") THEN 0
    ELSE IF above /\ df[i].close > The(df[i].ema50) THEN EmaBonus
    ELSE IF ~above /\ df[i].close < The(df[i].ema50) THEN EmaBonus
    ELSE 0

\* C22: once the EMA rule has run, every row where ema9 crossed ema21 has the
\* confidence 0.6, or 0.7 when that row's close is beyond that row's ema50 in
\* the direction of the cross; without an ema50 column it is 0.6.
C22_EmaBonusPerBar ==
    C22_Crossed =>
        \A i \in Bars :
            /\ ema_cross_up[i] =>
                  (i \in DOMAIN signals /\ signals[i].signal = 1
                   /\ signals[i].confidence = EmaBase + C22_Bonus(i, TRUE))
            /\ ema_cross_down[i] =>
                  (i \in DOMAIN signals /\ signals[i].signal = -1
                   /\ signals[i].confidence = EmaBase + C22_Bonus(i, FALSE))

C23_Row(e) == e[1][1]
C23_Lowest(i, w) == df[i].low = MinOver("low", i - w, i + w)
C23_Highest(i, w) == df[i].high = MaxOver("high", i - w, i + w)

\* C23: a row is recorded as a support only if it lies in window .. len-window
\* (counted from 0, the upper end excluded), its low is strictly below the lows
\* of both neighbours and is the lowest low of the rows i-window .. i+window;
\* the same for a resistance with the highs; a constant table has no levels.
C23_ExtremumOfCentredWindow ==
    Detected =>
        LET w == args.window
        IN  /\ \A k \in DOMAIN Extrema("support") :
                  LET i == C23_Row(Extrema("support")[k])
                  IN  /\ w + 1 <= i /\ i <= Len(df) - w
                      /\ df[i].low < df[i - 1].low /\ df[i].low < df[i + 1].low
                      /\ C23_Lowest(i, w)
            /\ \A k \in DOMAIN Extrema("resistance") :
                  LET i == C23_Row(Extrema("resistance")[k])
                  IN  /\ w + 1 <= i /\ i <= Len(df) - w
                      /\ df[i].high > df[i - 1].high /\ df[i].high > df[i + 1].high
                      /\ C23_Highest(i, w)
            /\ (\A i \in Bars : df[i].low = df[1].low /\ df[i].high = df[1].high)
                  => (Extrema("support") = <<>> /\ Extrema("resistance") = <<>>)

\* mean of x over rows a..b (rows counted from 1)
C24_Mean(x, a, b) == Val(RDiv(SumOver(x, a, b), Rat(b - a + 1)))
C24_Wilder(prev, x, p) == Val(RDiv(RAdd(RMul(The(prev), Rat(p - 1)), The(x)), Rat(p)))
\* the averages as stated: undefined before row p+1, there the mean of the
\* deltas of rows 2..p+1, and smoothed afterwards
RECURSIVE C24_Average(_, _, _)
C24_Average(x, p, i) ==
    IF i <= p THEN NaN
    ELSE IF i = p + 1 THEN C24_Mean(x, 2, p + 1)
    ELSE C24_Wilder(C24_Average(x, p, i - 1), x[i], p)

\* C24: the first defined average gain and average loss of RSI are the means
\* of the first `period` deltas, RSI is undefined before `period` deltas
\* exist, and every later average is (previous * (period-1) + current) / period.
C24_SeededByFirstDeltas ==
    Called("RSI") =>
        LET p == args.timeperiod
            g == gain(diff(close_series))
            l == loss(diff(close_series))
        IN  \A i \in Bars :
                /\ i <= p => ~Defined(result.value[i])
                /\ avg_gain(close_series, p)[i] = C24_Average(g, p, i)
                /\ avg_loss(close_series, p)[i] = C24_Average(l, p, i)
                /\ result.value[i] = rsi(Divide(C24_Average(g, p, i), C24_Average(l, p, i)))

\* max(high - low, |high - prevClose|, |low - prevClose|) of row i > 1
C25_TrueRange(i) ==
    Max2(df[i].high - df[i].low,
         Max2(Abs(df[i].high - df[i - 1].close), Abs(df[i].low - df[i - 1].close)))
RECURSIVE C25_Sum(_, _)
C25_Sum(a, b) == IF a > b THEN 0 ELSE C25_TrueRange(b) + C25_Sum(a, b - 1)

\* C25: ATR at a row is the mean of the true ranges of the `period` rows
\* ending there, the first row having none: it is undefined on the first
\* `period` rows, where fewer true ranges exist, and never negative.
C25_MeanOfTrueRanges ==
    Called("ATR") =>
        LET p == args.timeperiod
        IN  \A i \in Bars :
                /\ i <= p => ~Defined(result.value[i])
                /\ i > p => result.value[i] = Val(RNorm(C25_Sum(i - p + 1, i), p))
                /\ Defined(result.value[i]) => RGe(The(result.value[i]), Rat(0))

C26_Complete == entry_level # None /\ exit_level # None /\ stop_loss # None
\* the confidence a call returned, of predict_price_levels or of
\* _calculate_setup_confidence called on its own
C26_Confidence ==
    IF result.kind = "setup" THEN result.value.confidence ELSE result.value
\* risk_reward of the setup: |entry - exit| / |entry - stop|, 0 if stop equals entry
C26_Ratio ==
    IF stop_loss = entry_level THEN Rat(0)
    ELSE RDiv(RAbs(RSub(entry_level, exit_level)), RAbs(RSub(entry_level, stop_loss)))
C26_Adjustment(r) ==
    IF RGe(r, Rat(2)) THEN 10
    ELSE IF RGe(r, <<3, 2>>) THEN 5
    ELSE IF RGe(r, Rat(1)) THEN 0
    ELSE -10
C26_Scored == pc = "done" /\ result.kind \in {"setup", "confidence"} /\ C26_Complete /\ ~Empty

\* C26: the confidence of a complete setup holds the risk-reward adjustment
\* +0.1 for a ratio r >= 2, +0.05 for 1.5 <= r < 2, 0 for 1 <= r < 1.5 and
\* -0.1 for r < 1, r = 0 (stop equal to entry) included.
C26_RiskRewardAdjustment ==
    C26_Scored =>
        LET long == RLt(entry_level, exit_level)
            short == RGt(entry_level, exit_level)
        IN  C26_Confidence =
                Clamp(50 + TrendScore(long, short) + RsiScore(long) + MacdScore(long)
                         + BbScore(long) + C26_Adjustment(C26_Ratio))

C27_Trend == {"trend_up", "trend_down"}
C27_TwiceAtr == RMul(Rat(2), atr)

\* C27: without a recent signal and without a setup near a level the setup is
\* the trend continuation: entry = the last close, long exactly when the last
\* close is strictly above the one before, stop 2 * ATR on the adverse side and
\* exit 2 * ATR on the other; its risk_reward is 1 whenever ATR > 0.
C27_TrendContinuation ==
    (Predicted /\ pc = "done" /\ Len(df) >= MinBars) =>
        /\ (SignalBranch = "market" /\ NearLevel[3] = None) => setup \in C27_Trend
        /\ setup \in C27_Trend =>
              LET n == Len(df)
                  long == df[n].close > df[n - 1].close
              IN  /\ entry_level = current_price
                  /\ setup = "trend_up" <=> long
                  /\ stop_loss = IF long THEN RSub(entry_level, C27_TwiceAtr)
                                 ELSE RAdd(entry_level, C27_TwiceAtr)
                  /\ exit_level = IF long THEN RAdd(entry_level, C27_TwiceAtr)
                                  ELSE RSub(entry_level, C27_TwiceAtr)
                  /\ RGt(atr, Rat(0)) => result.value.risk_reward = Rat(1)

\* the reasons of the rules, in the order of C2_Rules
C28_Reasons ==
    <<"EMA9 crossed above EMA21", "EMA9 crossed below EMA21",
      "RSI crossed above 30 (oversold)", "RSI crossed below 70 (overbought)",
      "MACD crossed above signal line", "MACD crossed below signal line",
      "Price bounced from lower Bollinger Band", "Price rejected from upper Bollinger Band">>

\* C28: every returned buy or sell carries the reason of the rule that set its
\* direction and confidence: never an empty reason, never the reason of a rule
\* that a more confident one overrode.
C28_ReasonOfWinningRule ==
    result.kind = "signals" =>
        \A k \in DOMAIN result.rows :
            LET r == result.rows[k]
                rules == C2_Rules(r.bar)
            IN  r.signal # 0 =>
                    /\ r.reason # ""
                    /\ C2_Fired(rules) # {}
                    /\ r.reason = C28_Reasons[C2_FirstAtMax(rules)]

C29_Prices == {"entry", "exit", "stop_loss"}

\* C29: in a record returned by predict_price_levels the fields entry, exit and
\* stop_loss are all none or all prices, and with a none among them the
\* confidence and the risk_reward reported are 0.
C29_AllOrNone ==
    Returned =>
        LET v == result.value
            none == {f \in C29_Prices : v[f] = None}
        IN  /\ none \in {{}, C29_Prices}
            /\ v.entry # None => (v.exit # None /\ v.stop_loss # None)
            /\ none # {} =>
                  /\ "confidence" \in DOMAIN v => v.confidence = 0
                  /\ "risk_reward" \in DOMAIN v => v.risk_reward = Rat(0)

C30_Long == RLt(entry_level, exit_level)
C30_Short == RGt(entry_level, exit_level)
C30_Raw == RawConfidence(entry_level, exit_level, stop_loss)

\* C30: on a setup with entry, exit and stop all present the confidence
\* before the clamp already lies in [0.1, 1.0]: the trend adds 0.1 or nothing,
\* each of RSI, MACD, Bollinger and risk-reward adds between -0.1 and +0.1; so
\* the clamp leaves the value as it is and the confidence is never 0.
C30_ClampChangesNothing ==
    C26_Scored =>
        /\ TrendScore(C30_Long, C30_Short) \in {0, 10}
        /\ RsiScore(C30_Long) \in -10..10
        /\ MacdScore(C30_Long) \in -10..10
        /\ BbScore(C30_Long) \in -10..10
        /\ RiskRewardScore(entry_level, exit_level, stop_loss) \in -10..10
        /\ C30_Raw \in 10..100
        /\ C26_Confidence = C30_Raw
        /\ C26_Confidence > 0

\* a complete setup against which RSI, MACD, the bands and the risk-reward
\* ratio all count, with ema9 and ema21 pointing the other way
C30_Witness ==
    /\ C26_Scored
    /\ C30_Raw = 10
    /\ C26_Confidence = 10
    /\ Has("ema9") /\ Has("ema21")
    /\ IF C30_Long THEN Lt(Last("ema9"), Last("ema21")) ELSE Gt(Last("ema9"), Last("ema21"))

====
